---- MODULE Spec2Model ----
(***************************************************************************)
(* Division / remainder core of the big-integer library                    *)
(* (src/src/algorithms/div.rs).                                            *)
(*                                                                         *)
(* A BigUint is a sequence of digits, least significant first.  The digit  *)
(* width is scaled down to BITS = 4 so that every digit value can be       *)
(* enumerated; every width-dependent quantity of the source is scaled     *)
(* with it (see U64BITS, U32BITS, TWO54FLOAT).  Two build switches of the  *)
(* source are state of the model: `debug` (debug assertions and overflow   *)
(* checks compiled in) and `u64_digit` (the cargo feature that selects     *)
(* 64-bit digits; without it digits are 32-bit).                           *)
(***************************************************************************)
EXTENDS Integers, Sequences, FiniteSets, TLC

VARIABLES
    debug,      \* build: debug_assert! and arithmetic overflow checks active
    u64_digit,  \* build: feature "u64_digit"
    cache,      \* the thread_local CACHE of the calling thread
    pc,         \* "idle" | "returned"
    call,       \* the call being reported: [op, u, d]
    ret,        \* its outcome: [outcome, q, r, viol]
    ncalls      \* calls made so far on this thread

vars == <<debug, u64_digit, cache, pc, call, ret, ncalls>>

(***************************************************************************)
(* Digits and digit sequences                                              *)
(***************************************************************************)
BITS == 4
TWO_POW_BITS == 2^BITS
TWO_POW_BITS1 == 2^(BITS - 1)

\* width of a u64 / u32 machine word, in the scale of the model
U64BITS == IF u64_digit THEN BITS ELSE 2 * BITS
U32BITS == IF u64_digit THEN BITS \div 2 ELSE BITS

\* 2**54 as f64: ten bits below the range of a u64, one bit in this scale
TWO54FLOAT == 2^(U64BITS - 1)

PANIC == 0 - 1
PanicSeq == <<PANIC>>

RECURSIVE ValFrom(_, _)
ValFrom(s, i) == IF i > Len(s) THEN 0 ELSE s[i] + TWO_POW_BITS * ValFrom(s, i + 1)
\* the integer a digit sequence represents
Val(s) == ValFrom(s, 1)

\* the n low digits of v
Digits(v, n) == [i \in 1..n |-> (v \div (TWO_POW_BITS^(i - 1))) % TWO_POW_BITS]

RECURSIVE NumDigits(_)
NumDigits(v) == IF v = 0 THEN 0 ELSE 1 + NumDigits(v \div TWO_POW_BITS)

\* the canonical BigUint of value v
Big(v) == Digits(v, NumDigits(v))

\* BigUint::normalize / normalized: strip most-significant zero digits
normalized(s) == Big(Val(s))

is_canonical(s) == Len(s) = 0 \/ s[Len(s)] # 0

RECURSIVE BitLen(_)
BitLen(v) == IF v = 0 THEN 0 ELSE 1 + BitLen(v \div 2)

RECURSIVE trailing_zeros(_)
trailing_zeros(v) == IF v % 2 = 1 THEN 0 ELSE 1 + trailing_zeros(v \div 2)

\* BigUint::leading_zeros: zero bits above the top set bit of the top digit
leading_zeros(x) == IF Len(x) = 0 THEN 0 ELSE BITS - BitLen(x[Len(x)])

\* Ord of two BigUints (cmp_slice): length first, then digits from the top
cmp_slice(a, b) ==
    IF Len(a) # Len(b) THEN (IF Len(a) < Len(b) THEN -1 ELSE 1)
    ELSE IF Val(a) < Val(b) THEN -1 ELSE IF Val(a) > Val(b) THEN 1 ELSE 0

SubSeqFrom(s, i) == SubSeq(s, i, Len(s))
Zeros(n) == [i \in 1..n |-> 0]
Min(a, b) == IF a < b THEN a ELSE b
Max(a, b) == IF a < b THEN b ELSE a

(***************************************************************************)
(* Digit-slice primitives of crate::algorithms                             *)
(***************************************************************************)
\* __sub2(a, b): a -= b over len(a) digits, returns the borrow
__sub2(a, b) ==
    LET n  == Len(a)
        va == Val(a)
        vb == Val(SubSeq(b, 1, Min(n, Len(b))))
    IN  [a |-> Digits((va - vb) % (TWO_POW_BITS^n), n), bw |-> va < vb]

\* __add2(a, b): a += b over len(a) digits, returns the carry; b must not be
\* longer than a (split_at_mut panics otherwise)
__add2(a, b) ==
    IF Len(a) < Len(b) THEN [a |-> PanicSeq, cy |-> 0]
    ELSE LET n == Len(a)
             s == Val(a) + Val(b)
         IN  [a |-> Digits(s % (TWO_POW_BITS^n), n), cy |-> s \div (TWO_POW_BITS^n)]

\* __mul3(x, y): the full product, len(x) + len(y) digits
__mul3(x, y) == Digits(Val(x) * Val(y), Len(x) + Len(y))

\* mul_lo(x, y, len): x <- low `len` digits of x * y
mul_lo(x, y, len) == Digits((Val(x) * Val(y)) % (TWO_POW_BITS^len), Len(x))

\* mul_hi(x, y, len): x <- the digits of x * y above the low `len`
mul_hi(x, y, len) == Digits((Val(x) * Val(y)) \div (TWO_POW_BITS^len), Len(x))

\* mod_inv1(q): the inverse of the odd digit q modulo 2**BITS
mod_inv1(q) == CHOOSE w \in 0..(TWO_POW_BITS - 1) : (q * w) % TWO_POW_BITS = 1

\* `a + b` on digits: panics on overflow in a debug build, wraps otherwise
checked_add(a, b) ==
    IF a + b >= TWO_POW_BITS
    THEN (IF debug THEN PANIC ELSE a + b - TWO_POW_BITS)
    ELSE a + b

(***************************************************************************)
(* Scalar modular kernel                                                   *)
(***************************************************************************)
umulh(x, y) == (x * y) \div TWO_POW_BITS

\* mont_mul_32, on words of U32BITS bits
mont_mul_32(x, y, q, qinv) ==
    IF x = 0 \/ y = 0 THEN 0
    ELSE LET R   == 2^U32BITS
             hi  == (x * y) \div R
             lo0 == (x * y) % R
             lo1 == (qinv * lo0) % R
             lo  == (q * lo1) \div R
         IN  IF hi < lo THEN q - (lo - hi) ELSE hi - lo

mont_mul(x, y, q, qinv) ==
    IF u64_digit
    THEN IF x = 0 \/ y = 0 THEN 0
         ELSE LET hi  == (x * y) \div TWO_POW_BITS
                  lo0 == (x * y) % TWO_POW_BITS
                  lo1 == (qinv * lo0) % TWO_POW_BITS
                  lo  == umulh(q, lo1)
              IN  IF hi < lo THEN q - (lo - hi) ELSE hi - lo
    ELSE mont_mul_32(x, y, q, qinv)

mont_sqr(x, q, qinv) == mont_mul(x, x, q, qinv)

mmul_one(x, q, qinv) ==
    LET lo == umulh(q, (qinv * x) % TWO_POW_BITS)
    IN  IF lo # 0 THEN q - lo ELSE lo

RECURSIVE calc_bitmap_loop_plain_halving(_, _, _)
\* the halving loop without the + 1
calc_bitmap_loop_plain_halving(j, p, bm) ==
    IF p > 5 THEN calc_bitmap_loop_plain_halving(j + 1, p \div 2, Append(bm, p % 2 = 0))
    ELSE [j |-> j, p |-> p, bm |-> bm]

RECURSIVE calc_bitmap_loop(_, _, _)
calc_bitmap_loop(j, p, bm) ==
    IF p > 5 THEN calc_bitmap_loop(j + 1, (p \div 2) + 1, Append(bm, p % 2 = 0))
    ELSE [j |-> j, p |-> p, bm |-> bm]
\* (j, p, bm): bm[i + 1] is bit i of the bitmap
calc_bitmap(n) == calc_bitmap_loop(0, n, <<>>)

\* 2**64 (mod q) on u32 words, by the sign trick
radix_power2_32(q, qinv) ==
    LET R    == 2^U32BITS
        res0 == (2^(2 * U32BITS - 1)) % q
        s    == (res0 - q) % R
        res1 == (res0 + s) % R
        b    == res1 >= R \div 2
        l    == IF b THEN q ELSE 0
    IN  (res1 + l) % R

radix_power2(q, qinv) ==
    IF ~u64_digit THEN radix_power2_32(q, qinv)
    ELSE IF q \div 2^((3 * BITS) \div 4) > 0
    THEN LET r_m == TWO_POW_BITS % q
         IN  (r_m * r_m) % q
    ELSE IF q \div 2^U32BITS > 0
    THEN \* 2**60 (mod q) taken through two mont_mul_48 steps is 2**96 (mod q),
         \* R**(3/2); the 48-bit steps have no counterpart at this digit width
         LET res == (2^((3 * BITS) \div 2)) % q
         IN  mont_sqr(res, q, qinv)
    ELSE LET res0 == radix_power2_32(q, qinv % 2^U32BITS)
             res1 == mont_mul_32(res0, res0, q, qinv % 2^U32BITS)
         IN  mont_sqr(res1, q, qinv)

RECURSIVE radix_power_loop(_, _, _, _, _)
radix_power_loop(i, bm, pow, q, qinv) ==
    IF i < 0 THEN pow
    ELSE IF bm[i + 1]
         THEN radix_power_loop(i - 1, bm, mont_mul(mmul_one(pow, q, qinv), pow, q, qinv), q, qinv)
         ELSE radix_power_loop(i - 1, bm, mont_sqr(pow, q, qinv), q, qinv)

\* radix_power once r2 = R**2 (mod q) is known
radix_power_from(n, q, qinv, r2) ==
    LET ptmp == mont_sqr(r2, q, qinv)
        cb   == calc_bitmap(n)
    IN  IF n = 2 THEN r2
        ELSE IF n = 3 THEN ptmp
        ELSE radix_power_loop(cb.j - 1, cb.bm,
                              IF cb.p = 4 THEN mont_mul(r2, ptmp, q, qinv)
                              ELSE mont_sqr(ptmp, q, qinv),
                              q, qinv)

radix_power(n, q, qinv) == radix_power_from(n, q, qinv, radix_power2(q, qinv))

RECURSIVE remainder_a_loop(_, _, _, _, _)
remainder_a_loop(x, i, cy, q, qinv) ==
    IF i > Len(x) THEN cy
    ELSE LET bw  == IF x[i] < cy THEN 1 ELSE 0
             tmp == checked_add((((x[i] - cy) % TWO_POW_BITS) * qinv) % TWO_POW_BITS, bw)
         IN  IF tmp = PANIC THEN PANIC
             ELSE remainder_a_loop(x, i + 1, umulh(tmp, q), q, qinv)

\* the end of remainder_a: negate the carry cy0 and scale it by R**n
remainder_a_scale(cy0, n, q, qinv) ==
    IF cy0 = PANIC THEN PANIC
    ELSE mont_mul(IF cy0 > 0 THEN q - cy0 ELSE cy0, radix_power(n, q, qinv), q, qinv)

remainder_a(x, q, qinv) ==
    IF q = 1 THEN 0
    ELSE remainder_a_scale(remainder_a_loop(x, 1, 0, q, qinv), Len(x) + 1, q, qinv)

RECURSIVE remainder_a_u2_loop(_, _, _, _, _, _, _)
remainder_a_u2_loop(x, i, n2, cy0, cy1, q, qinv) ==
    IF i > n2 THEN <<cy0, cy1>>
    ELSE LET n    == Len(x)
             bw0  == IF x[i] < cy0 THEN 1 ELSE 0
             xin2 == IF i + n2 <= n THEN x[i + n2] ELSE 0
             bw1  == IF xin2 < cy1 THEN 1 ELSE 0
             tmp0 == checked_add((((x[i] - cy0) % TWO_POW_BITS) * qinv) % TWO_POW_BITS, bw0)
             tmp1 == checked_add((((xin2 - cy1) % TWO_POW_BITS) * qinv) % TWO_POW_BITS, bw1)
         IN  IF tmp0 = PANIC \/ tmp1 = PANIC THEN <<PANIC, PANIC>>
             ELSE remainder_a_u2_loop(x, i + 1, n2, umulh(tmp0, q), umulh(tmp1, q), q, qinv)

\* the end of remainder_a_u2: cy0 + cy1 (mod q), scaled once more
remainder_a_u2_sum(c0, cy1, scale, q, qinv) ==
    LET sum == (c0 + cy1) % TWO_POW_BITS
    IN  mont_mul(IF sum < cy1 \/ sum >= q THEN (sum - q) % TWO_POW_BITS ELSE sum,
                 scale, q, qinv)

\* the two half-length carries cs joined with scale = R**(n2 + 1) (mod q)
remainder_a_u2_join(cs, scale, q, qinv) ==
    IF cs[1] = PANIC THEN PANIC
    ELSE remainder_a_u2_sum(IF cs[1] > 0 THEN q - cs[1] ELSE cs[1],
                            mont_mul(IF cs[2] > 0 THEN q - cs[2] ELSE cs[2], scale, q, qinv),
                            scale, q, qinv)

remainder_a_u2(x, q, qinv) ==
    LET n  == Len(x)
        n2 == (n + (n % 2)) \div 2
    IN  IF n < 2 THEN remainder_a(x, q, qinv)
        ELSE IF q = 1 THEN 0
        ELSE remainder_a_u2_join(remainder_a_u2_loop(x, 1, n2, 0, 0, q, qinv),
                                 radix_power(n2 + 1, q, qinv), q, qinv)

RECURSIVE remainder_b_loop(_, _, _, _, _)
remainder_b_loop(x, i, cy, q, qinv) ==
    IF i > Len(x) - 1 THEN cy
    ELSE LET overflow == IF x[i] < cy THEN 1 ELSE 0
             tmp == checked_add((((x[i] - cy) % TWO_POW_BITS) * qinv) % TWO_POW_BITS, overflow)
         IN  IF tmp = PANIC THEN PANIC
             ELSE remainder_b_loop(x, i + 1, umulh(tmp, q), q, qinv)

\* the end of remainder_b: the last digit xi less the carry cy, scaled by R**n
remainder_b_scale(xi, cy, n, q, qinv) ==
    IF cy = PANIC THEN PANIC
    ELSE mont_mul(IF cy > xi THEN (((xi - cy) % TWO_POW_BITS) + q) % TWO_POW_BITS
                  ELSE (xi - cy) % TWO_POW_BITS,
                  radix_power(n, q, qinv), q, qinv)

remainder_b(x, q, qinv) ==
    IF Len(x) = 0 THEN 0
    ELSE IF Len(x) = 1 THEN x[1] % q
    ELSE remainder_b_scale(x[Len(x)], remainder_b_loop(x, 1, 0, q, qinv), Len(x), q, qinv)

RECURSIVE quotient_odd_loop(_, _, _, _, _, _, _)
quotient_odd_loop(x, i, bw, cy, q, qinv, out) ==
    IF i > Len(x) THEN [x |-> out, cy |-> cy]
    ELSE LET t0  == (x[i] - bw - cy) % TWO_POW_BITS
             bw1 == IF t0 > x[i] THEN 1 ELSE 0
             tmp == (t0 * qinv) % TWO_POW_BITS
         IN  quotient_odd_loop(x, i + 1, bw1, umulh(tmp, q), q, qinv, Append(out, tmp))

\* quotient_odd without the final x.normalize()
quotient_odd_unnormalized(res) ==
    [ok |-> ~(debug /\ res.cy # 0), x |-> res.x, viol |-> res.cy # 0]

\* the outcome of quotient_odd from its loop's result
quotient_odd_end(res) ==
    [ok |-> ~(debug /\ res.cy # 0), x |-> normalized(res.x), viol |-> res.cy # 0]

\* quotient_odd with the carry started at zero instead of at r
quotient_odd_without_remainder(x, r, q, qinv) ==
    quotient_odd_end(quotient_odd_loop(x, 1, 0, 0, q, qinv, <<>>))

\* [ok, x, viol]: the new value of x; viol tells that debug_assert!(cy == 0)
\* does not hold, ok that the build lets the call return
quotient_odd(x, r, q, qinv) == quotient_odd_end(quotient_odd_loop(x, 1, 0, r, q, qinv, <<>>))

\* BigUint >> n and << n
shr(x, n) == Big(Val(x) \div 2^n)
shl(x, n) == Big(Val(x) * 2^n)

Fail == [ok |-> FALSE, x |-> <<>>, rem |-> 0, viol |-> TRUE]

\* the result of div_rem_digit from the quotient pass xq and the remainder rem
div_rem_digit_end(xq, rem) ==
    IF rem = PANIC \/ ~xq.ok THEN Fail
    ELSE [ok |-> TRUE, x |-> xq.x, rem |-> rem, viol |-> xq.viol]

\* odd q: r is the remainder
div_rem_digit_odd(x, r, q, qinv) ==
    IF r = PANIC THEN Fail
    ELSE div_rem_digit_end(quotient_odd(x, r, q, qinv), r)

\* even q: r_dash is the remainder by the odd part q_dash of x >> tz
div_rem_digit_even(x, r_dash, tz, bsave, q_dash, qinv_dash) ==
    IF r_dash = PANIC THEN Fail
    ELSE div_rem_digit_end(quotient_odd(x, r_dash, q_dash, qinv_dash),
                           checked_add((r_dash * 2^tz) % TWO_POW_BITS, bsave))

div_rem_digit_shifted(x, tz, bsave, q_dash, qinv_dash) ==
    div_rem_digit_even(x, remainder_b(x, q_dash, qinv_dash), tz, bsave, q_dash, qinv_dash)

\* [ok, x, rem, viol]: the quotient left in x and the returned remainder
div_rem_digit(x, q) ==
    IF Len(x) = 0 THEN [ok |-> TRUE, x |-> x, rem |-> 0, viol |-> FALSE]
    ELSE IF Len(x) = 1
    THEN [ok |-> TRUE, x |-> normalized(<<x[1] \div q>>), rem |-> x[1] % q, viol |-> FALSE]
    ELSE IF q % 2 = 1
    THEN div_rem_digit_odd(x, remainder_a_u2(x, q, mod_inv1(q)), q, mod_inv1(q))
    ELSE div_rem_digit_shifted(shr(x, trailing_zeros(q)), trailing_zeros(q),
                               x[1] % 2^trailing_zeros(q),
                               q \div 2^trailing_zeros(q),
                               mod_inv1(q \div 2^trailing_zeros(q)))

\* even q: the remainder from the remainder r_dash by the odd part
rem_digit_even(r_dash, tz, bsave) ==
    IF r_dash = PANIC THEN PANIC
    ELSE checked_add((r_dash * 2^tz) % TWO_POW_BITS, bsave)

\* the remainder, or PANIC
rem_digit(x, q) ==
    IF Len(x) = 0 THEN 0
    ELSE IF Len(x) = 1 THEN x[1] % q
    ELSE IF q % 2 = 1 THEN remainder_a_u2(x, q, mod_inv1(q))
    ELSE rem_digit_even(remainder_b(shr(x, trailing_zeros(q)), q \div 2^trailing_zeros(q),
                                    mod_inv1(q \div 2^trailing_zeros(q))),
                        trailing_zeros(q), x[1] % 2^trailing_zeros(q))

\* the quotient pass of div_digit from the remainder r
div_digit_quot(x, r, q, qinv) ==
    IF r = PANIC THEN [ok |-> FALSE, x |-> <<>>, viol |-> TRUE]
    ELSE quotient_odd(x, r, q, qinv)

div_digit_shifted(x, q_dash, qinv_dash) ==
    div_digit_quot(x, remainder_b(x, q_dash, qinv_dash), q_dash, qinv_dash)

\* [ok, x, viol]: the quotient left in x
div_digit(x, q) ==
    IF Len(x) = 0 THEN [ok |-> TRUE, x |-> x, viol |-> FALSE]
    ELSE IF Len(x) = 1 THEN [ok |-> TRUE, x |-> normalized(<<x[1] \div q>>), viol |-> FALSE]
    ELSE IF q % 2 = 1
    THEN div_digit_quot(x, remainder_a_u2(x, q, mod_inv1(q)), q, mod_inv1(q))
    ELSE div_digit_shifted(shr(x, trailing_zeros(q)), q \div 2^trailing_zeros(q),
                           mod_inv1(q \div 2^trailing_zeros(q)))

(***************************************************************************)
(* Knuth long division, binary division, the small-ratio fast path         *)
(* Results are [ok, q, r, viol]: ok is FALSE when the call panics; viol    *)
(* tells that a debug_assert! condition met on the way does not hold,      *)
(* whether or not the build evaluates it.                                  *)
(***************************************************************************)
None == <<0 - 2>>
Panicked == [ok |-> FALSE, q |-> <<>>, r |-> <<>>, viol |-> TRUE]
Done(q, r, viol) == [ok |-> TRUE, q |-> q, r |-> r, viol |-> viol]

\* while prod > a[j..] { q0 -= 1; prod -= b }, in closed form: the loop runs
\* k times, k the least number with prod - k * b <= a[j..]
knuth_correct(q0, prod, b, aj) ==
    LET over == prod - Val(aj)
        k    == IF cmp_slice(Big(prod), aj) = 1 THEN (over + b - 1) \div b ELSE 0
    IN  [q0 |-> q0 - k, prod |-> prod - k * b, k |-> k]

\* tr is the record of the steps taken so far, one entry per quotient
\* position: the guess, the decrements k applied to it and the true partial
\* quotient a[j..] / b
KnuthFail(a, q, tr) == [ok |-> FALSE, a |-> a, q |-> q, viol |-> TRUE, trace |-> tr]

RECURSIVE knuth_loop(_, _, _, _, _, _)

\* the end of one step: qs is q[j..] + q0, c.prod is taken off a[j..]
knuth_step_sub(j, a, q, b, viol, c, qs, tr) ==
    IF qs.a = PanicSeq \/ (debug /\ qs.cy # 0) THEN KnuthFail(a, q, tr)
    ELSE knuth_loop(j - 1,
                    normalized(SubSeq(a, 1, j)
                               \o Digits(Val(SubSeqFrom(a, j + 1)) - c.prod, Len(a) - j)),
                    SubSeq(q, 1, j) \o qs.a, b, viol \/ qs.cy # 0, tr)

\* the corrected trial quotient c.q0 is added into q[j..]
knuth_step_add(j, a, q, b, viol, c, tr) ==
    knuth_step_sub(j, a, q, b, viol, c, __add2(SubSeqFrom(q, j + 1), Big(c.q0)),
                   Append(tr, [guess |-> c.q0 + c.k, k |-> c.k,
                               quot  |-> Val(SubSeqFrom(a, j + 1)) \div Val(b)]))

\* one step from the trial quotient g = a[offset..] / bn
knuth_step(j, a, q, b, viol, g, tr) ==
    IF ~g.ok THEN KnuthFail(a, q, tr)
    ELSE knuth_step_add(j, a, q, b, viol \/ g.viol,
                        knuth_correct(Val(g.x), Val(b) * Val(g.x), Val(b),
                                      SubSeqFrom(a, j + 1)),
                        tr)

\* quotient positions j, j-1, .., 0 (0-based) over the running remainder a
knuth_loop(j, a, q, b, viol, tr) ==
    IF j < 0 THEN [ok |-> TRUE, a |-> a, q |-> q, viol |-> viol, trace |-> tr]
    ELSE IF j + Len(b) - 1 >= Len(a) THEN knuth_loop(j - 1, a, q, b, viol, tr)
    ELSE knuth_step(j, a, q, b, viol,
                    div_rem_digit(SubSeqFrom(a, j + Len(b)), b[Len(b)]), tr)

\* the result of a digit kernel as a division result
FromDigit(g) == IF g.ok THEN Done(g.x, Big(g.rem), g.viol) ELSE Panicked

\* the end of div_rem_knuth: l is the outcome of the loop
knuth_end(l, b, shift) ==
    IF ~l.ok THEN Panicked
    ELSE IF debug /\ ~(cmp_slice(l.a, b) = -1) THEN Panicked
    ELSE Done(normalized(l.q), shr(l.a, shift), l.viol \/ ~(cmp_slice(l.a, b) = -1))

\* the long division of the normalised operands a and b
knuth_normalized(a, b, shift) ==
    knuth_end(knuth_loop(Len(a) - Len(b), a, Zeros(Len(a) - Len(b) + 1), b, FALSE, <<>>),
              b, shift)

div_rem_knuth(u, d) ==
    IF Len(d) = 0 THEN Panicked
    ELSE IF Len(u) = 0 THEN Done(<<>>, <<>>, FALSE)
    ELSE IF Len(d) = 1
    THEN IF d[1] = 1 THEN Done(u, <<>>, FALSE)
         ELSE FromDigit(div_rem_digit(u, d[1]))
    ELSE IF cmp_slice(u, d) = -1 THEN Done(<<>>, u, FALSE)
    ELSE IF cmp_slice(u, d) = 0 THEN Done(<<1>>, <<>>, FALSE)
    ELSE knuth_normalized(shl(u, BITS - BitLen(d[Len(d)])),
                          shl(d, BITS - BitLen(d[Len(d)])),
                          BITS - BitLen(d[Len(d)]))

RECURSIVE div_rem_binary_loop(_, _, _, _)
div_rem_binary_loop(i, x_loc, y_loc, q) ==
    IF i < 0 THEN [x_loc |-> x_loc, q |-> q]
    ELSE LET sub == cmp_slice(x_loc, y_loc) = 1
             x1  == IF sub THEN normalized(__sub2(x_loc, y_loc).a) ELSE x_loc
             q1  == IF sub THEN q + 2^i ELSE q
             y1  == IF i > 0 THEN shr(y_loc, 1) ELSE y_loc
         IN  div_rem_binary_loop(i - 1, x1, y1, q1)

\* the end of div_rem_binary: l is the outcome of the loop
div_rem_binary_end(l, y) ==
    IF debug /\ ~(cmp_slice(l.x_loc, y) = -1) THEN Panicked
    ELSE Done(Big(l.q), l.x_loc, ~(cmp_slice(l.x_loc, y) = -1))

div_rem_binary(x, y) ==
    IF Len(y) = 0 THEN Panicked
    ELSE LET x_len   == Len(x)
             y_len   == Len(y)
             max_len == Max(x_len, y_len)
             lz_x    == leading_zeros(x) + (max_len - x_len) * BITS
             lz_y    == leading_zeros(y) + (max_len - y_len) * BITS
             nshift  == lz_y - lz_x
         IN  IF x_len < y_len \/ (x_len = y_len /\ cmp_slice(x, y) = -1)
             THEN Done(<<>>, x, FALSE)
             ELSE div_rem_binary_end(div_rem_binary_loop(nshift, x, shl(y, nshift), 0), y)

\* (bits, position): the leading BITS bits of x, left justified
get_leading_bits(x) ==
    LET len     == Len(x)
        nshift  == leading_zeros(x)
        nwshift == nshift \div BITS
        rembits == nshift % BITS
        i       == len - nwshift
        hi      == (x[i] * 2^rembits) % TWO_POW_BITS
        bits    == IF rembits > 0
                   THEN hi + (IF i > 1 THEN x[i - 1] \div 2^(BITS - rembits) ELSE 0)
                   ELSE x[i]
    IN  IF nwshift >= len THEN <<0, 0>> ELSE <<bits, len * 64 - nshift>>

ncmax == 16

RECURSIVE div_rem_small_add(_, _, _, _)
\* bw: while nc < ncmax && y < r { r += y; itmp -= 1 }
div_rem_small_add(nc, r, itmp, y) ==
    IF nc < ncmax /\ cmp_slice(y, r) = -1
    THEN IF itmp = 0 /\ debug THEN [ok |-> FALSE, nc |-> nc, r |-> r, itmp |-> itmp]
         ELSE div_rem_small_add(nc + 1, normalized(__add2(r, y).a), (itmp - 1) % TWO_POW_BITS, y)
    ELSE [ok |-> TRUE, nc |-> nc, r |-> r, itmp |-> itmp]

RECURSIVE div_rem_small_sub(_, _, _, _)
\* !bw: while nc < ncmax && r > y { r -= y; itmp += 1 }
div_rem_small_sub(nc, r, itmp, y) ==
    IF nc < ncmax /\ cmp_slice(r, y) = 1
    THEN IF checked_add(itmp, 1) = PANIC THEN [ok |-> FALSE, nc |-> nc, r |-> r, itmp |-> itmp]
         ELSE div_rem_small_sub(nc + 1, normalized(__sub2(r, y).a), checked_add(itmp, 1), y)
    ELSE [ok |-> TRUE, nc |-> nc, r |-> r, itmp |-> itmp]

\* the end of div_rem_small: l is the outcome of the correction loop
div_rem_small_end(l, y) ==
    IF ~l.ok THEN Panicked
    ELSE IF debug /\ (~(l.nc < ncmax) \/ ~(cmp_slice(l.r, y) = -1)) THEN Panicked
    ELSE Done(Big(l.itmp), l.r, ~(l.nc < ncmax) \/ ~(cmp_slice(l.r, y) = -1))

\* the correction loop on s = x - y * fquo (s.bw: the subtraction borrowed)
div_rem_small_loop(s, y, fquo) ==
    div_rem_small_end(IF s.bw THEN div_rem_small_add(0, normalized(s.a), fquo, y)
                      ELSE div_rem_small_sub(0, normalized(s.a), fquo, y), y)

\* fquo is passed already truncated to a digit (fquo as BigDigit)
div_rem_small(x, y, fquo) == div_rem_small_loop(__sub2(x, Big(Val(y) * fquo)), y, fquo)

(***************************************************************************)
(* Multi-digit Montgomery arithmetic                                       *)
(***************************************************************************)
CeilLog2(n) == BitLen(n - 1)

\* Vec::resize(n, 0)
Resize(s, n) == [i \in 1..n |-> IF i <= Len(s) THEN s[i] ELSE 0]

RECURSIVE mod_invn_loop(_, _, _, _)
mod_invn_loop(j, log2_numbits, x, xinv) ==
    IF j >= log2_numbits THEN xinv
    ELSE LET len  == Len(x)
             R    == TWO_POW_BITS^len
             tmp0 == mul_lo(x, xinv, len)
             tmp1 == Digits((R - Val(tmp0)) % R, len)       \* nega
             tmp2 == Digits((Val(tmp1) + 2) % R, len)       \* __add_scalar(tmp, 2)
         IN  mod_invn_loop(j + 1, log2_numbits, x, mul_lo(xinv, tmp2, len))

\* mod_invn with the Newton loop started one iteration late
mod_invn_one_step_short(x) ==
    LET xbits        == Len(x) * 64
        log2_numbits == CeilLog2(xbits)
        xinv0        == <<mod_inv1(x[1])>> \o Zeros(Len(x) - 1)
    IN  normalized(mod_invn_loop(7, log2_numbits, x, xinv0))

mod_invn(x) ==
    LET xbits        == Len(x) * 64
        log2_numbits == CeilLog2(xbits)
        xinv0        == <<mod_inv1(x[1])>> \o Zeros(Len(x) - 1)
    IN  normalized(mod_invn_loop(6, log2_numbits, x, xinv0))

\* the product tmp0 resized to hold len + len(q) digits
mont_pad(tmp0, len, q) ==
    IF Len(tmp0) - len < Len(q) THEN Resize(tmp0, len + Len(q)) ELSE tmp0

\* the final conditional add-back of q after hi - lo
mont_reduce_end(s, q) ==
    IF s.bw THEN normalized(__add2(s.a, q).a) ELSE normalized(s.a)

\* the Montgomery reduction of the product tmp = lo:hi
mont_reduce(tmp, len, q, qinv) ==
    mont_reduce_end(__sub2(SubSeqFrom(tmp, len + 1),
                           mul_hi(mul_lo(SubSeq(tmp, 1, len), qinv, len), q, len)), q)

mont_mul_n(x, y, q, qinv) == mont_reduce(mont_pad(__mul3(x, y), Len(x), q), Len(x), q, qinv)

mont_sqr_n(x, q, qinv) == mont_reduce(mont_pad(__mul3(x, x), Len(x), q), Len(x), q, qinv)

\* sub2rev(q, z): z <- q - z; q must not be longer than z
mmul_one_n(x, q, qinv) ==
    LET len == Len(x)
        z   == mul_hi(mul_lo(x, qinv, len), q, len)
    IN  IF Val(z) = 0 THEN normalized(z)
        ELSE IF Len(z) < Len(q) THEN PanicSeq
        ELSE normalized(Digits((Val(q) - Val(z)) % (TWO_POW_BITS^Len(z)), Len(z)))

RECURSIVE radix_power_n_loop(_, _, _, _, _)
radix_power_n_loop(i, bm, pow, q, qinv) ==
    IF i < 0 \/ pow = PanicSeq THEN pow
    ELSE IF bm[i + 1]
         THEN LET tmp == mmul_one_n(pow, q, qinv)
              IN  IF tmp = PanicSeq THEN PanicSeq
                  ELSE radix_power_n_loop(i - 1, bm, mont_mul_n(tmp, pow, q, qinv), q, qinv)
         ELSE radix_power_n_loop(i - 1, bm, mont_sqr_n(pow, q, qinv), q, qinv)

\* [x, ret]: x shifted left in place by 0 < nbits < BITS, ret the bits shifted out
shl_n(x, nbits) ==
    [x   |-> [i \in 1..Len(x) |->
                 IF i = 1 THEN (x[1] * 2^nbits) % TWO_POW_BITS
                 ELSE ((x[i] * 2^nbits) % TWO_POW_BITS) + (x[i - 1] \div 2^(BITS - nbits))],
     ret |-> x[Len(x)] \div 2^(BITS - nbits)]

\* the bitmap loop of radix_power_n from r2 = R**2 and r3 = R**3 (mod q)
radix_power_n_pow(n, q, qinv, r2, r3) ==
    LET cb == calc_bitmap(n)
    IN  radix_power_n_loop(cb.j - 1, cb.bm,
                           IF cb.p = 4 THEN mont_mul_n(r2, r3, q, qinv)
                           ELSE IF cb.p = 5 THEN mont_sqr_n(r3, q, qinv)
                           ELSE PanicSeq,
                           q, qinv)

\* radix_power_n once r2 = R**2 (mod q) is known
radix_power_n_from(n, q, qinv, r2) ==
    IF n = 2 THEN r2
    ELSE IF n = 3 THEN mont_sqr_n(r2, q, qinv)
    ELSE radix_power_n_pow(n, q, qinv, r2, mont_sqr_n(r2, q, qinv))

\* the doubled remainder s = shl_n(r2, 1) brought below q
radix_power_n_reduce(n, q, qinv, s) ==
    radix_power_n_from(n, q, qinv,
                       IF s.ret > 0 \/ cmp_slice(q, normalized(s.x)) = -1
                       THEN normalized(__sub2(normalized(s.x), q).a)
                       ELSE normalized(s.x))

\* k is the outcome of div_rem_knuth(R**2 / 2, q)
radix_power_n_double(n, q, qinv, k) ==
    IF ~k.ok THEN PanicSeq
    ELSE radix_power_n_reduce(n, q, qinv, shl_n(Resize(k.r, Len(q)), 1))

\* R**n (mod q) with R = 2**(BITS * len(q)), or PanicSeq
radix_power_n(n, q, qinv) ==
    radix_power_n_double(n, q, qinv,
                         div_rem_knuth(Zeros(2 * Len(q) - 1) \o <<TWO_POW_BITS1>>, q))

(***************************************************************************)
(* The thread-local cache and the multi-digit Montgomery division          *)
(* Results are [ok, q, r, viol, cache]; cache is the cache the call leaves *)
(* behind, also when it panics.                                            *)
(***************************************************************************)
\* Cache::default(); of scratch only the length is kept
DefaultCache ==
    [w |-> <<>>, winv |-> <<>>, basepow |-> <<>>, scratch_len |-> 0, cy |-> <<>>, tmp |-> <<>>]

Out(viol, q, r, c) == [ok |-> TRUE, q |-> q, r |-> r, viol |-> viol, cache |-> c]
Abort(c) == [ok |-> FALSE, q |-> <<>>, r |-> <<>>, viol |-> TRUE, cache |-> c]

\* the equal-length fast path: FP estimate of x / y, else Knuth
fast_path(x, y) ==
    LET lx   == get_leading_bits(x)
        ly   == get_leading_bits(y)
        lo   == lx[1]
        itmp == ly[1]
        bw   == 2^((lx[2] - ly[2]) % U64BITS)                 \* 1u64.wrapping_shl
        fquo == Min((bw * lo) \div itmp, TWO_POW_BITS - 1)    \* fquo as BigDigit
    IN  IF bw * lo < TWO54FLOAT * itmp
        THEN div_rem_small(x, y, fquo)
        ELSE div_rem_knuth(x, y)

RECURSIVE fold_loop(_, _, _, _, _, _)
\* first pass over the full chunks of v; st = [ok, lohi, tmp]
fold_loop(v, k, nch, w, winv, st) ==
    IF k > nch THEN st
    ELSE LET w_len == Len(w)
             vi    == SubSeq(v, (k - 1) * w_len + 1, k * w_len)
             s     == __sub2(vi, SubSeqFrom(st.lohi, w_len + 1))
             lo    == mul_lo(s.a, SubSeq(winv, 1, Min(Len(winv), w_len)), w_len)
             t     == Val(s.a) + (IF s.bw THEN 1 ELSE 0)       \* __add_scalar(tmp, bw)
             tmp   == Digits(t % (TWO_POW_BITS^w_len), w_len)
             tmp2  == __mul3(lo, w)
             cl    == Min(Len(tmp), Len(st.lohi))
             lohi  == SubSeq(tmp2, 1, cl) \o SubSeqFrom(lo \o SubSeqFrom(st.lohi, w_len + 1), cl + 1)
         IN  IF t >= TWO_POW_BITS^w_len
             THEN [ok |-> FALSE, lohi |-> st.lohi, tmp |-> tmp]
             ELSE fold_loop(v, k + 1, nch, w, winv, [ok |-> TRUE, lohi |-> lohi, tmp |-> tmp])

RECURSIVE quot_loop(_, _, _, _, _, _)
\* second pass, with the chunk index i = k - 1; st = [ok, lohi, tmp, q, viol]
quot_loop(v, k, nch, w, winv, st) ==
    IF k > nch THEN st
    ELSE LET w_len == Len(w)
             i     == k - 1
             vi    == SubSeq(v, i * w_len + 1, (i + 1) * w_len)
             s     == __sub2(vi, SubSeqFrom(st.lohi, w_len + 1))
             tmp   == mul_lo(s.a, winv, w_len)
             lohi0 == Digits(Val(tmp) * Val(w), 2 * w_len)     \* mac3 into zeroed lohi
             bw    == IF s.bw THEN 1 ELSE 0
             d     == checked_add(lohi0[w_len + 1], bw)
             lohi  == [n \in 1..(2 * w_len) |-> IF n = w_len + 1 THEN d ELSE lohi0[n]]
             q0    == IF i + w_len >= Len(st.q) THEN Resize(st.q, i + w_len) ELSE st.q
             q     == [n \in 1..Len(q0) |->
                          IF n > i /\ n <= i + w_len THEN tmp[n - i] ELSE q0[n]]
         IN  IF d = PANIC
             THEN [ok |-> FALSE, lohi |-> st.lohi, tmp |-> tmp, q |-> st.q, viol |-> TRUE]
             ELSE quot_loop(v, k + 1, nch, w, winv,
                            [ok |-> TRUE, lohi |-> lohi, tmp |-> tmp, q |-> q,
                             viol |-> st.viol \/ d < bw])

\* The part of div_rem_mont_inner that runs with the cache borrowed, in the
\* order of the source.  m = [v, w, rem_save, nshift, v_len, with_div,
\* with_rem] holds the locals that stay fixed, c is the cache as written so far.

\* the even-modulus adjustment done, the requested parts returned
mont_result(m, c, p, r) ==
    IF r = PanicSeq THEN Abort(c)
    ELSE Out(p.viol,
             normalized(IF Len(m.v) % Len(m.w) > 0
                        THEN [n \in 1..Len(p.q) |->
                                 IF n > m.v_len \div Len(m.w)
                                    /\ n <= (m.v_len \div Len(m.w)) + (Len(m.v) % Len(m.w))
                                 THEN 0 ELSE p.q[n]]
                        ELSE p.q),
             IF m.with_rem THEN normalized(r) ELSE None, c)

\* p is the outcome of the quotient pass; cy is adjusted for an even modulus
mont_adjust(m, c, cy, p) ==
    IF ~p.ok THEN Abort([c EXCEPT !.tmp = p.tmp])
    ELSE mont_result(m, [c EXCEPT !.tmp = p.tmp], p,
                     IF m.nshift > 0 THEN __add2(shl(cy, m.nshift), m.rem_save).a ELSE cy)

\* cy is the remainder out of Montgomery space: return it, or run the
\* quotient pass
mont_quot(m, c, lohi, cy) ==
    IF ~m.with_div THEN Out(FALSE, None, normalized(cy), c)
    ELSE mont_adjust(m, c, cy,
                     quot_loop(m.v, 1, Len(m.v) \div Len(m.w), m.w, c.winv,
                               [ok   |-> TRUE,
                                lohi |-> SubSeq(lohi, 1, Len(m.w))
                                         \o Resize(SubSeq(cy, 1, Min(Len(cy), Len(m.w))),
                                                   Len(m.w)),
                                tmp  |-> c.tmp,
                                q    |-> Zeros(2 * Len(m.w)),
                                viol |-> FALSE]))

\* basepow is what radix_power_n returned, or the cached power
mont_back(m, c, lohi, basepow) ==
    IF basepow = PanicSeq THEN Abort(c)
    ELSE mont_quot(m, [c EXCEPT !.basepow = basepow], lohi,
                   mont_mul_n(c.cy, basepow, m.w, c.winv))

\* the last term: the remainder chunk of v, zero padded, less lohi[w_len..]
mont_last_term(remd, lohi, w) ==
    LET pad == __sub2(Resize(remd, Len(w)), SubSeqFrom(lohi, Len(w) + 1))
    IN  IF Len(remd) > 0
        THEN (IF pad.bw THEN __add2(pad.a, w).a ELSE pad.a)
        ELSE SubSeq(lohi, 1, Len(w))

\* f is the outcome of the first pass
mont_last(m, c, regen_cache, f) ==
    IF ~f.ok THEN Abort([c EXCEPT !.tmp = f.tmp])
    ELSE mont_back(m,
                   [c EXCEPT !.tmp = f.tmp,
                             !.cy = mont_last_term(
                                        SubSeqFrom(m.v, (Len(m.v) \div Len(m.w)) * Len(m.w) + 1),
                                        f.lohi, m.w)],
                   f.lohi,
                   IF regen_cache
                   THEN radix_power_n(Len(m.w), m.w, c.winv)
                   ELSE c.basepow)

\* the first pass over the chunks of v, with cache.w and cache.winv set
mont_fold(m, c, regen_cache) ==
    mont_last(m, c, regen_cache,
              fold_loop(m.v, 1, Len(m.v) \div Len(m.w), m.w, c.winv,
                        [ok   |-> TRUE,
                         lohi |-> Zeros(2 * Len(m.w)),
                         tmp  |-> Resize(c.tmp, Len(m.w))]))

\* the shortcut storing its odd component as the cached modulus
mont_single_stores_modulus(m, c, g) ==
    IF ~g.ok THEN Abort(c)
    ELSE Out(g.viol,
             IF m.with_div THEN g.x ELSE None,
             IF ~m.with_rem THEN None
             ELSE IF m.nshift > 0
             THEN normalized(__add2(Resize(shl(Big(g.rem), m.nshift),
                                           Max(Len(shl(Big(g.rem), m.nshift)),
                                               Len(m.rem_save))),
                                    m.rem_save).a)
             ELSE Big(g.rem),
             [c EXCEPT !.w = m.w])

\* the single odd-component shortcut: g is the outcome of div_rem_digit
mont_single(m, c, g) ==
    IF ~g.ok THEN Abort(c)
    ELSE Out(g.viol,
             IF m.with_div THEN g.x ELSE None,
             IF ~m.with_rem THEN None
             ELSE IF m.nshift > 0
             THEN normalized(__add2(Resize(shl(Big(g.rem), m.nshift),
                                           Max(Len(shl(Big(g.rem), m.nshift)),
                                               Len(m.rem_save))),
                                    m.rem_save).a)
             ELSE Big(g.rem),
             c)

\* the shortcut, or the core with the cache regenerated when w changed
mont_odd(m, c) ==
    IF Len(m.w) = 1 THEN mont_single(m, c, div_rem_digit(m.v, m.w[1]))
    ELSE mont_fold(m,
                   [c EXCEPT !.w = m.w,
                             !.winv = IF c.w # m.w THEN mod_invn(m.w) ELSE c.winv,
                             !.cy = Resize(c.cy, Len(m.w))],
                   c.w # m.w)

\* the bottom nshift bits of x: its low nws digits, the last one masked
rem_save(x, nshift) ==
    LET nws  == (nshift + BITS - 1) \div BITS
        nbs  == nshift % BITS
        mask == (TWO_POW_BITS - 1) \div 2^((BITS - nbs) % BITS)     \* wrapping_shr
    IN  [i \in 1..nws |-> IF i = nws THEN x[i] % (mask + 1) ELSE x[i]]

\* scratch grown, the trailing zeros of y shifted out of x and y
mont_core(x, y, with_div, with_rem, c) ==
    LET nshift == trailing_zeros(Val(y))
        nws    == (nshift + BITS - 1) \div BITS
        c0     == [c EXCEPT !.scratch_len = Max(c.scratch_len, 4 * Len(x))]
    IN  IF nshift > 0 /\ nws > Len(x) THEN Abort(c0)
        ELSE mont_odd([v        |-> IF nshift > 0 THEN shr(x, nshift) ELSE x,
                       w        |-> IF nshift > 0 THEN shr(y, nshift) ELSE y,
                       rem_save |-> IF nshift > 0 THEN rem_save(x, nshift) ELSE <<>>,
                       nshift   |-> nshift,
                       v_len    |-> Len(x),
                       with_div |-> with_div,
                       with_rem |-> with_rem],
                      c0)

\* the outcome f of the fast path, cut down to the requested parts
mont_fast(f, with_div, with_rem, c) ==
    IF ~f.ok THEN Abort(c)
    ELSE Out(f.viol, IF with_div THEN f.q ELSE None, IF with_rem THEN f.r ELSE None, c)

div_rem_mont_inner(x, y, with_div, with_rem, c) ==
    IF Len(x) = Len(y) THEN mont_fast(fast_path(x, y), with_div, with_rem, c)
    ELSE mont_core(x, y, with_div, with_rem, c)

\* Option::unwrap of the requested parts cannot fail: they are always Some
div_mont(x, y, c) == div_rem_mont_inner(x, y, TRUE, FALSE, c)
rem_mont(x, y, c) == div_rem_mont_inner(x, y, FALSE, TRUE, c)
div_rem_mont(x, y, c) == div_rem_mont_inner(x, y, TRUE, TRUE, c)

(***************************************************************************)
(* The public entry points                                                 *)
(* Results are [outcome, q, r, viol, cache] with outcome "ok", "panic" or  *)
(* "DivisionByZero" (panic!("Cannot divide by zero")); a part that the     *)
(* function does not return is None.                                       *)
(***************************************************************************)
Ret(outcome, q, r, viol, c) ==
    [outcome |-> outcome, q |-> q, r |-> r, viol |-> viol, cache |-> c]

FromInner(m) ==
    IF m.ok THEN Ret("ok", m.q, m.r, m.viol, m.cache)
    ELSE Ret("panic", None, None, TRUE, m.cache)

\* the outcomes of the single-digit kernels as results of the entry points
FromDivDigit(g, c) ==
    IF g.ok THEN Ret("ok", g.x, None, g.viol, c) ELSE Ret("panic", None, None, TRUE, c)

FromRemDigit(g, c) ==
    IF g # PANIC THEN Ret("ok", None, Big(g), FALSE, c) ELSE Ret("panic", None, None, TRUE, c)

FromDivRemDigit(g, c) ==
    IF g.ok THEN Ret("ok", g.x, Big(g.rem), g.viol, c)
    ELSE Ret("panic", None, None, TRUE, c)

\* div with the shortcut for d = 1 returning zero, as the one for u = 0 does
div_by_one_returns_zero(u, d, c) ==
    IF Len(d) = 0 THEN Ret("DivisionByZero", None, None, FALSE, c)
    ELSE IF Len(u) = 0 THEN Ret("ok", <<>>, None, FALSE, c)
    ELSE IF Len(d) = 1
    THEN IF d[1] = 1 THEN Ret("ok", <<>>, None, FALSE, c)
         ELSE FromDivDigit(div_digit(u, d[1]), c)
    ELSE IF cmp_slice(u, d) = -1 THEN Ret("ok", <<>>, None, FALSE, c)
    ELSE IF cmp_slice(u, d) = 0 THEN Ret("ok", <<1>>, None, FALSE, c)
    ELSE FromInner(div_mont(u, d, c))

div(u, d, c) ==
    IF Len(d) = 0 THEN Ret("DivisionByZero", None, None, FALSE, c)
    ELSE IF Len(u) = 0 THEN Ret("ok", <<>>, None, FALSE, c)
    ELSE IF Len(d) = 1
    THEN IF d[1] = 1 THEN Ret("ok", u, None, FALSE, c)
         ELSE FromDivDigit(div_digit(u, d[1]), c)
    ELSE IF cmp_slice(u, d) = -1 THEN Ret("ok", <<>>, None, FALSE, c)
    ELSE IF cmp_slice(u, d) = 0 THEN Ret("ok", <<1>>, None, FALSE, c)
    ELSE FromInner(div_mont(u, d, c))

\* rem with the arm for u < d returning zero, as the arm for u = d does
rem_less_returns_zero(u, d, c) ==
    IF Len(d) = 0 THEN Ret("DivisionByZero", None, None, FALSE, c)
    ELSE IF Len(u) = 0 THEN Ret("ok", None, <<>>, FALSE, c)
    ELSE IF Len(d) = 1
    THEN IF d[1] = 1 THEN Ret("ok", None, <<>>, FALSE, c)
         ELSE FromRemDigit(rem_digit(u, d[1]), c)
    ELSE IF cmp_slice(u, d) = -1 THEN Ret("ok", None, <<>>, FALSE, c)
    ELSE IF cmp_slice(u, d) = 0 THEN Ret("ok", None, <<>>, FALSE, c)
    ELSE FromInner(rem_mont(u, d, c))

rem(u, d, c) ==
    IF Len(d) = 0 THEN Ret("DivisionByZero", None, None, FALSE, c)
    ELSE IF Len(u) = 0 THEN Ret("ok", None, <<>>, FALSE, c)
    ELSE IF Len(d) = 1
    THEN IF d[1] = 1 THEN Ret("ok", None, <<>>, FALSE, c)
         ELSE FromRemDigit(rem_digit(u, d[1]), c)
    ELSE IF cmp_slice(u, d) = -1 THEN Ret("ok", None, u, FALSE, c)
    ELSE IF cmp_slice(u, d) = 0 THEN Ret("ok", None, <<>>, FALSE, c)
    ELSE FromInner(rem_mont(u, d, c))

\* div_rem with the test for u = 0 ahead of the test for d = 0
div_rem_zero_dividend_first(u, d, c) ==
    IF Len(u) = 0 THEN Ret("ok", <<>>, <<>>, FALSE, c)
    ELSE IF Len(d) = 0 THEN Ret("DivisionByZero", None, None, FALSE, c)
    ELSE IF Len(d) = 1
    THEN IF d[1] = 1 THEN Ret("ok", u, <<>>, FALSE, c)
         ELSE FromDivRemDigit(div_rem_digit(u, d[1]), c)
    ELSE IF cmp_slice(u, d) = -1 THEN Ret("ok", <<>>, u, FALSE, c)
    ELSE IF cmp_slice(u, d) = 0 THEN Ret("ok", <<1>>, <<>>, FALSE, c)
    ELSE FromInner(div_rem_mont(u, d, c))

div_rem(u, d, c) ==
    IF Len(d) = 0 THEN Ret("DivisionByZero", None, None, FALSE, c)
    ELSE IF Len(u) = 0 THEN Ret("ok", <<>>, <<>>, FALSE, c)
    ELSE IF Len(d) = 1
    THEN IF d[1] = 1 THEN Ret("ok", u, <<>>, FALSE, c)
         ELSE FromDivRemDigit(div_rem_digit(u, d[1]), c)
    ELSE IF cmp_slice(u, d) = -1 THEN Ret("ok", <<>>, u, FALSE, c)
    ELSE IF cmp_slice(u, d) = 0 THEN Ret("ok", <<1>>, <<>>, FALSE, c)
    ELSE FromInner(div_rem_mont(u, d, c))

(***************************************************************************)
(* The state machine: one thread calling into the module                   *)
(***************************************************************************)
MaxCalls == 2

\* operands, by value
DividendValues == {0, 1, 5, 16, 17, 54, 81, 300, 4097, 70000}
DivisorValues == {0, 1, 3, 8, 13, 17, 18, 27, 34}
Dividends == {Big(v) : v \in DividendValues}
Divisors == {Big(v) : v \in DivisorValues}

\* operands of the direct calls of the three algorithms (as the unit tests
\* make them); the divisor is never zero there
AlgoXs == Dividends \cup {Big(123), Big(1280), Big(4096), Big(65536)}
AlgoYs == (Divisors \ {<<>>}) \cup {Big(456), Big(19)}

NoCall == [op |-> "none", u |-> <<>>, d |-> <<>>]
NoRet == [outcome |-> "none", q |-> None, r |-> None, viol |-> FALSE]

Init ==
    /\ debug \in BOOLEAN
    /\ u64_digit \in BOOLEAN
    /\ cache = DefaultCache
    /\ pc = "idle"
    /\ call = NoCall
    /\ ret = NoRet
    /\ ncalls = 0

\* the effect of a call that produced o
Returns(op, u, d, o) ==
    /\ pc = "idle"
    /\ ncalls < MaxCalls
    /\ cache' = o.cache
    /\ ret' = [outcome |-> o.outcome, q |-> o.q, r |-> o.r, viol |-> o.viol]
    /\ call' = [op |-> op, u |-> u, d |-> d]
    /\ pc' = "returned"
    /\ ncalls' = ncalls + 1
    /\ UNCHANGED <<debug, u64_digit>>

Div(u, d) == Returns("div", u, d, div(u, d, cache))
Rem(u, d) == Returns("rem", u, d, rem(u, d, cache))
DivRem(u, d) == Returns("div_rem", u, d, div_rem(u, d, cache))

DivRemMont(x, y) == Returns("div_rem_mont", x, y, FromInner(div_rem_mont(x, y, cache)))
\* div_rem_knuth and div_rem_binary do not touch the cache
Pure(res, c) ==
    IF res.ok THEN Ret("ok", res.q, res.r, res.viol, c)
    ELSE Ret("panic", None, None, TRUE, c)

DivRemKnuth(x, y) == Returns("div_rem_knuth", x, y, Pure(div_rem_knuth(x, y), cache))
DivRemBinary(x, y) == Returns("div_rem_binary", x, y, Pure(div_rem_binary(x, y), cache))

\* the caller takes the outcome (a panic is caught at the thread's boundary)
\* and goes on
Return ==
    /\ pc = "returned"
    /\ pc' = "idle"
    /\ call' = NoCall
    /\ ret' = NoRet
    /\ UNCHANGED <<debug, u64_digit, cache, ncalls>>

Next ==
    \/ \E u \in Dividends, d \in Divisors : Div(u, d)
    \/ \E u \in Dividends, d \in Divisors : Rem(u, d)
    \/ \E u \in Dividends, d \in Divisors : DivRem(u, d)
    \/ Return

Spec == Init /\ [][Next]_vars

\* the three division algorithms called directly
NextAlgo ==
    \/ \E x \in AlgoXs, y \in AlgoYs : DivRemMont(x, y)
    \/ \E x \in AlgoXs, y \in AlgoYs : DivRemKnuth(x, y)
    \/ \E x \in AlgoXs, y \in AlgoYs : DivRemBinary(x, y)
    \/ Return

SpecAlgo == Init /\ [][NextAlgo]_vars

(***************************************************************************)
(* The kernels called directly, as the unit tests of the module call them  *)
(***************************************************************************)
MaxPower == 10

\* dividends of the digit kernels: everything up to two digits and a little
\* beyond, and longer ones (three to six digits)
KernelValues == (0..300) \cup {2049, 3003, 4095, 4096, 4097, 65535, 70000, 1048575, 1048577, 16777215}
KernelXs == {Big(v) : v \in KernelValues}
KernelQs == 1..(TWO_POW_BITS - 1)
OddQs == {q \in KernelQs : q % 2 = 1}
Powers == 2..MaxPower

\* the effect of a kernel call with the arguments (x, q, n) that produced o
Applies(op, x, q, n, o) ==
    /\ pc = "idle"
    /\ ncalls < MaxCalls
    /\ cache' = o.cache
    /\ ret' = [outcome |-> o.outcome, q |-> o.q, r |-> o.r, viol |-> o.viol]
    /\ call' = [op |-> op, u |-> x, d |-> <<q>>, n |-> n]
    /\ pc' = "returned"
    /\ ncalls' = ncalls + 1
    /\ UNCHANGED <<debug, u64_digit>>

DivRemDigit(x, q) == Applies("div_rem_digit", x, q, 0, FromDivRemDigit(div_rem_digit(x, q), cache))
RemDigit(x, q) == Applies("rem_digit", x, q, 0, FromRemDigit(rem_digit(x, q), cache))
DivDigit(x, q) == Applies("div_digit", x, q, 0, FromDivDigit(div_digit(x, q), cache))

RemainderA(x, q) ==
    Applies("remainder_a", x, q, 0, FromRemDigit(remainder_a(x, q, mod_inv1(q)), cache))
RemainderAU2(x, q) ==
    Applies("remainder_a_u2", x, q, 0, FromRemDigit(remainder_a_u2(x, q, mod_inv1(q)), cache))
RemainderB(x, q) ==
    Applies("remainder_b", x, q, 0, FromRemDigit(remainder_b(x, q, mod_inv1(q)), cache))

\* quotient_odd is handed the true remainder r = x mod q
QuotientOdd(x, q) ==
    Applies("quotient_odd", x, q, 0,
            FromDivDigit(quotient_odd(x, Val(x) % q, q, mod_inv1(q)), cache))

RadixPower2(q) ==
    Applies("radix_power2", <<>>, q, 2, FromRemDigit(radix_power2(q, mod_inv1(q)), cache))
RadixPower(n, q) ==
    Applies("radix_power", <<>>, q, n, FromRemDigit(radix_power(n, q, mod_inv1(q)), cache))

\* odd moduli of one, two and three digits (the square of a modulus has to
\* stay within the integers of the model checker)
OddXs == {x \in KernelXs : Len(x) \in 1..3 /\ x[1] % 2 = 1}

\* a BigUint-valued kernel result as an outcome
FromBig(g, c) ==
    IF g # PanicSeq THEN Ret("ok", None, g, FALSE, c) ELSE Ret("panic", None, None, TRUE, c)

ModInvn(x) == Applies("mod_invn", x, 0, 0, FromBig(mod_invn(x), cache))
\* radix_power_n is handed qinv = mod_invn(q)
RadixPowerN(n, q) ==
    Applies("radix_power_n", q, 0, n, FromBig(radix_power_n(n, q, mod_invn(q)), cache))

NextKernel ==
    \/ pc = "idle" /\ \E x \in KernelXs, q \in KernelQs : DivRemDigit(x, q)
    \/ pc = "idle" /\ \E x \in KernelXs, q \in KernelQs : RemDigit(x, q)
    \/ pc = "idle" /\ \E x \in KernelXs, q \in KernelQs : DivDigit(x, q)
    \/ pc = "idle" /\ \E x \in KernelXs, q \in OddQs : RemainderA(x, q)
    \/ pc = "idle" /\ \E x \in KernelXs, q \in OddQs : RemainderAU2(x, q)
    \/ pc = "idle" /\ \E x \in KernelXs, q \in OddQs : RemainderB(x, q)
    \/ pc = "idle" /\ \E x \in KernelXs, q \in OddQs : QuotientOdd(x, q)
    \/ pc = "idle" /\ \E q \in OddQs : RadixPower2(q)
    \/ pc = "idle" /\ \E n \in Powers, q \in OddQs : RadixPower(n, q)
    \/ pc = "idle" /\ \E x \in OddXs : ModInvn(x)
    \/ pc = "idle" /\ \E n \in Powers, q \in OddXs : RadixPowerN(n, q)
    \/ Return

SpecKernel == Init /\ [][NextKernel]_vars

(***************************************************************************)
(* The internal routines called directly                                   *)
(***************************************************************************)
\* operands of div_rem_small: pairs of equal digit length with x >= y
SmallValues == {1, 2, 3, 5, 7, 8, 14, 15, 16, 17, 30, 32, 34, 45, 48, 51, 85, 100, 128, 200, 240, 254, 255}
SmallPairs ==
    {p \in SmallValues \X SmallValues : p[1] >= p[2] /\ NumDigits(p[1]) = NumDigits(p[2])}
\* quotient estimates as a digit (fquo as BigDigit)
Estimates == 0..(TWO_POW_BITS - 1)

\* div_rem_small(x, y, fquo) with the estimate e = fquo as BigDigit
\* the effect of a call with the arguments (x, y, n) that produced o
Called(op, x, y, n, o) ==
    /\ pc = "idle"
    /\ ncalls < MaxCalls
    /\ cache' = o.cache
    /\ ret' = [outcome |-> o.outcome, q |-> o.q, r |-> o.r, viol |-> o.viol]
    /\ call' = [op |-> op, u |-> x, d |-> y, n |-> n]
    /\ pc' = "returned"
    /\ ncalls' = ncalls + 1
    /\ UNCHANGED <<debug, u64_digit>>

DivRemSmall(x, y, e) ==
    Called("div_rem_small", x, y, e, Pure(div_rem_small(x, y, e), cache))

\* odd moduli of one, two and three digits, and operands of mont_mul_n
MontQs == {Big(v) : v \in {3, 13, 15, 17, 19, 255, 257, 4095}}
MontValues == {1, 2, 5, 10, 12, 15, 16, 18, 40, 100, 200, 255, 256, 300, 4000, 4095}
\* operands below 2^(W * len(q))
MontXs(q) == {Big(v) : v \in {m \in MontValues : NumDigits(m) <= Len(q)}}

\* mont_mul_n and mont_sqr_n are handed qinv = mod_invn(q)
MontMulN(x, y, q) ==
    Called("mont_mul_n", x, y, q, FromBig(mont_mul_n(x, y, q, mod_invn(q)), cache))
MontSqrN(x, q) ==
    Called("mont_sqr_n", x, x, q, FromBig(mont_sqr_n(x, q, mod_invn(q)), cache))

MaxSchedule == 70
\* powers that take the bitmap path
SchedulePowers == 4..MaxSchedule

RECURSIVE radix_power_n_bitmap(_, _, _)
\* the inline loop of radix_power_n: while n > 5 { bm.set_bit(j, is_even(n));
\* n = n / 2 + 1; j += 1 }
radix_power_n_bitmap(j, n, bm) ==
    IF n > 5 THEN radix_power_n_bitmap(j + 1, (n \div 2) + 1, Append(bm, n % 2 = 0))
    ELSE [j |-> j, p |-> n, bm |-> bm]

\* calc_bitmap(n) returns (j, p, bm): p is kept in q and bm in r
CalcBitmap(n) ==
    Called("calc_bitmap", <<>>, <<>>, n,
           Ret("ok", calc_bitmap(n).p, calc_bitmap(n).bm, FALSE, cache))

NextInner ==
    \/ pc = "idle" /\ \E p \in SmallPairs, e \in Estimates : DivRemSmall(Big(p[1]), Big(p[2]), e)
    \/ pc = "idle" /\ \E q \in MontQs : \E x \in MontXs(q), y \in MontXs(q) : MontMulN(x, y, q)
    \/ pc = "idle" /\ \E q \in MontQs : \E x \in MontXs(q) : MontSqrN(x, q)
    \/ pc = "idle" /\ \E n \in SchedulePowers : CalcBitmap(n)
    \/ pc = "idle" /\ \E x \in AlgoXs, y \in AlgoYs : DivRemBinary(x, y)
    \/ Return

SpecInner == Init /\ [][NextInner]_vars
(***************************************************************************)
(* Properties                                                              *)
(***************************************************************************)
EntryOps == {"div", "rem", "div_rem"}
AlgoOps == {"div_rem_mont", "div_rem_knuth", "div_rem_binary"}
ReturnsQuotient == call.op \in {"div", "div_rem"}
ReturnsRemainder == call.op \in {"rem", "div_rem"}

\* C1: for every u and every d > 0, div_rem(u, d) returns (q, r) with
\* u = q * d + r and 0 <= r < d, whichever path the dispatcher selects.
C1_DivRemContract ==
    (pc = "returned" /\ call.op = "div_rem" /\ call.d # <<>>)
        => /\ ret.outcome = "ok"
           /\ Val(ret.r) < Val(call.d)
           /\ Val(ret.q) = Val(call.u) \div Val(call.d)
           /\ Val(call.u) = Val(ret.q) * Val(call.d) + Val(ret.r)

\* C2: for every u and every d > 0, div(u, d) is the q and rem(u, d) is the r
\* that div_rem(u, d) returns (the next call on the thread, here), for odd and
\* for even divisors.
C2_DivAndRemAgreeWithDivRem ==
    (pc = "returned" /\ call.op \in {"div", "rem"} /\ call.d # <<>>)
        => LET both == div_rem(call.u, call.d, cache)
           IN  (ret.outcome = "ok" /\ both.outcome = "ok")
                   => /\ call.op = "div" => ret.q = both.q
                      /\ call.op = "rem" => ret.r = both.r

\* C3: a call of div, rem or div_rem with d = 0 ends with the division-by-zero
\* error for every u, returns no number and leaves the cache as it was.
C3_DivisionByZero ==
    [][(pc = "idle" /\ pc' = "returned" /\ call'.op \in EntryOps /\ call'.d = <<>>)
           => /\ ret'.outcome = "DivisionByZero"
              /\ ret'.q = None
              /\ ret'.r = None
              /\ cache' = cache]_vars

\* a division by zero of the dividend zero, met with a cache that an earlier
\* call has filled
C3_Witness ==
    /\ pc = "returned"
    /\ call.op \in EntryOps
    /\ call.u = <<>>
    /\ call.d = <<>>
    /\ ret.outcome = "DivisionByZero"
    /\ cache.w # <<>>

\* C4: for u < d (u = 0 included, d of one digit or more) div(u, d) = 0,
\* rem(u, d) = u and div_rem(u, d) = (0, u).
C4_SmallDividend ==
    (pc = "returned" /\ call.op \in EntryOps /\ call.d # <<>>
        /\ Val(call.u) < Val(call.d))
        => /\ ret.outcome = "ok"
           /\ ReturnsQuotient => ret.q = <<>>
           /\ ReturnsRemainder => ret.r = call.u
           /\ call.op = "div" => ret.r = None
           /\ call.op = "rem" => ret.q = None

\* rem(u, d) = u for a two-digit u below a two-digit d
C4_Witness ==
    /\ pc = "returned"
    /\ call.op = "rem"
    /\ Len(call.u) = 2
    /\ Len(call.d) = 2
    /\ Val(call.u) < Val(call.d)
    /\ ret.outcome = "ok"
    /\ ret.r = call.u

\* C5: for every u, div(u, 1) = u, rem(u, 1) = 0 and div_rem(u, 1) = (u, 0).
C5_DivideByOne ==
    (pc = "returned" /\ call.op \in EntryOps /\ call.d = <<1>>)
        => /\ ret.outcome = "ok"
           /\ ReturnsQuotient => ret.q = call.u
           /\ ReturnsRemainder => ret.r = <<>>

\* div(u, 1) = u for a u of several digits
C5_Witness ==
    /\ pc = "returned"
    /\ call.op = "div"
    /\ call.d = <<1>>
    /\ Len(call.u) > 2
    /\ ret.outcome = "ok"
    /\ ret.q = call.u

\* C6: every big integer that div, rem and div_rem return, the quotient left
\* in x by div_rem_digit and div_digit included, is canonical: no
\* most-significant zero digit, zero is the empty sequence.
C6_CanonicalResults ==
    (pc = "returned" /\ call.op \in EntryOps /\ ret.outcome = "ok")
        => /\ ReturnsQuotient => is_canonical(ret.q)
           /\ ReturnsRemainder => is_canonical(ret.r)

\* a quotient left in x by div_rem_digit that is shorter than the dividend
\* it overwrote
C6_Witness ==
    /\ pc = "returned"
    /\ call.op = "div_rem"
    /\ Len(call.d) = 1
    /\ call.d # <<1>>
    /\ Len(call.u) > 1
    /\ ret.outcome = "ok"
    /\ ret.q # <<>>
    /\ Len(ret.q) < Len(call.u)
    /\ is_canonical(ret.q)

\* C7: for every x and every y > 0, div_rem_mont, div_rem_knuth and
\* div_rem_binary return the same (q, r), digit for digit.
C7_AlgorithmsAgree ==
    (pc = "returned" /\ call.op \in AlgoOps)
        => LET m == div_rem_mont(call.u, call.d, cache)
               k == div_rem_knuth(call.u, call.d)
               b == div_rem_binary(call.u, call.d)
           IN  /\ m.ok /\ k.ok /\ b.ok
               /\ m.q = k.q /\ k.q = b.q
               /\ m.r = k.r /\ k.r = b.r

\* C8: whenever the cache holds a modulus w, its winv is the inverse of w and
\* its basepow is the radix power computed for that w, after any sequence of
\* calls, aborted ones included.
C8_CacheConsistent ==
    cache.w # <<>>
        => /\ cache.winv = mod_invn(cache.w)
           /\ cache.basepow = radix_power_n(Len(cache.w), cache.w, cache.winv)

\* C9: a context that has divided by a secret d is left with no retained state
\* that holds d or a value derived from it: when the call has returned and the
\* context is in control again, w, winv, basepow and the buffers are empty
\* (the code offers the context no other step at which they could be emptied).
C9_SecretNotRetained ==
    pc = "idle"
        => /\ cache.w = <<>>
           /\ cache.winv = <<>>
           /\ cache.basepow = <<>>
           /\ cache.cy = <<>>
           /\ cache.tmp = <<>>

\* C10: a call on whose path an internal invariant does not hold never returns
\* a number, in any build.
C10_NoSilentViolation ==
    (pc = "returned" /\ ret.viol) => ret.outcome # "ok"

\* the call reported in `call`, made on a thread that has made no call before
OnFreshThread ==
    IF call.op = "div" THEN div(call.u, call.d, DefaultCache)
    ELSE IF call.op = "rem" THEN rem(call.u, call.d, DefaultCache)
    ELSE div_rem(call.u, call.d, DefaultCache)

\* C11: the result of div, rem and div_rem depends only on (u, d): after any
\* history of earlier calls on the thread the call ends as it does on a thread
\* whose cache (w, winv, basepow, cy, tmp) was never written.
C11_HistoryIndependent ==
    (pc = "returned" /\ call.op \in EntryOps)
        => /\ ret.outcome = OnFreshThread.outcome
           /\ ret.q = OnFreshThread.q
           /\ ret.r = OnFreshThread.r

DigitOps == {"div_rem_digit", "rem_digit", "div_digit"}

\* C12: for every x and every digit q > 0 (odd, even, a power of two),
\* div_rem_digit(x, q) leaves floor(x / q) in x and returns x mod q,
\* rem_digit(x, q) returns that remainder and div_digit(x, q) leaves that
\* quotient; no call overflows a digit (panics).
C12_DigitKernels ==
    (pc = "returned" /\ call.op \in DigitOps)
        => /\ ret.outcome = "ok"
           /\ call.op # "rem_digit" => Val(ret.q) = Val(call.u) \div call.d[1]
           /\ call.op # "div_digit" => Val(ret.r) = Val(call.u) % call.d[1]

\* the inverse of x after k Newton steps
mod_invn_steps(x, k) ==
    mod_invn_loop(6, 6 + k, x, <<mod_inv1(x[1])>> \o Zeros(Len(x) - 1))

\* C13: for every odd x of len >= 1 digits, mod_invn(x) returns xinv with
\* x * xinv = 1 modulo 2^(BITS * len); after k Newton steps the low
\* min(2^k, len) digits are right, and the steps performed cover all len.
C13_ModInvn ==
    (pc = "returned" /\ call.op = "mod_invn")
        => /\ ret.outcome = "ok"
           /\ (Val(call.u) * Val(ret.r)) % (TWO_POW_BITS^Len(call.u)) = 1
           /\ Val(ret.r) < TWO_POW_BITS^Len(call.u)
           /\ \A k \in 0..(CeilLog2(Len(call.u) * 64) - 6) :
                  (Val(call.u) * Val(mod_invn_steps(call.u, k)))
                      % (TWO_POW_BITS^Min(2^k, Len(call.u))) = 1
           /\ 2^(CeilLog2(Len(call.u) * 64) - 6) >= Len(call.u)

\* an inverse of a three-digit modulus, which takes two Newton steps, the
\* first of which leaves the third digit wrong
C13_Witness ==
    /\ pc = "returned"
    /\ call.op = "mod_invn"
    /\ Len(call.u) = 3
    /\ CeilLog2(Len(call.u) * 64) - 6 = 2
    /\ (Val(call.u) * Val(mod_invn_steps(call.u, 1))) % (TWO_POW_BITS^3) # 1
    /\ ret.outcome = "ok"
    /\ (Val(call.u) * Val(ret.r)) % (TWO_POW_BITS^Len(call.u)) = 1

RECURSIVE PowMod(_, _, _)
\* b^e modulo m, by e multiplications
PowMod(b, e, m) == IF e = 0 THEN 1 % m ELSE ((b % m) * PowMod(b, e - 1, m)) % m

\* C14: for every odd digit q and every n >= 2, radix_power(n, q, qinv) with
\* q * qinv = 1 modulo 2^BITS returns 2^(BITS * n) mod q, and radix_power2
\* returns 2^(2 * BITS) mod q, in each size branch.
C14_RadixPower ==
    (pc = "returned" /\ call.op \in {"radix_power", "radix_power2"})
        => /\ ret.outcome = "ok"
           /\ Val(ret.r) = PowMod(TWO_POW_BITS, call.n, call.d[1])

\* C15: for every odd q of len digits with qinv = mod_invn(q) and every
\* n >= 2, radix_power_n(n, q, qinv) returns the canonical R^n mod q with
\* R = 2^(BITS * len); for a single-digit q it equals radix_power(n, q, qinv).
C15_RadixPowerN ==
    (pc = "returned" /\ call.op = "radix_power_n")
        => /\ ret.outcome = "ok"
           /\ is_canonical(ret.r)
           /\ Val(ret.r) = PowMod(TWO_POW_BITS^Len(call.u), call.n, Val(call.u))
           /\ Len(call.u) = 1
                  => Val(ret.r) = radix_power(call.n, call.u[1], mod_inv1(call.u[1]))

RemainderOps == {"remainder_a", "remainder_a_u2", "remainder_b"}

\* C16: for every x and every odd digit q > 1 with q * qinv = 1 modulo
\* 2^BITS, remainder_a, remainder_a_u2 and remainder_b return the same value,
\* and that value is x mod q.
C16_RemaindersAgree ==
    (pc = "returned" /\ call.op \in RemainderOps /\ call.d[1] > 1)
        => /\ ret.outcome = "ok"
           /\ Val(ret.r) = Val(call.u) % call.d[1]
           /\ remainder_a(call.u, call.d[1], mod_inv1(call.d[1]))
                  = remainder_a_u2(call.u, call.d[1], mod_inv1(call.d[1]))
           /\ remainder_a(call.u, call.d[1], mod_inv1(call.d[1]))
                  = remainder_b(call.u, call.d[1], mod_inv1(call.d[1]))

\* C17: for every x, every odd digit q and r = x mod q, quotient_odd(x, r, q,
\* qinv) ends with the carry cy = 0 (its debug assertion holds, in every
\* build) and leaves floor(x / q) in x, in canonical form.
C17_QuotientOdd ==
    (pc = "returned" /\ call.op = "quotient_odd")
        => /\ ret.outcome = "ok"
           /\ ~ret.viol
           /\ Val(ret.q) = Val(call.u) \div call.d[1]
           /\ is_canonical(ret.q)

\* an inexact division of three digits or more by a digit with the top bit
\* set, whose quotient is shorter than the dividend
C17_Witness ==
    /\ pc = "returned"
    /\ call.op = "quotient_odd"
    /\ Len(call.u) >= 3
    /\ call.d[1] >= TWO_POW_BITS1
    /\ Val(call.u) % call.d[1] # 0
    /\ ret.outcome = "ok"
    /\ Len(ret.q) < Len(call.u)
    /\ Val(ret.q) * call.d[1] + (Val(call.u) % call.d[1]) = Val(call.u)

\* C18: for every even multi-digit divisor d = 2^t * w that is routed to the
\* Montgomery core with a longer dividend u, the saved value is the low t
\* bits of u, and the remainder returned by rem and by div_rem is
\* ((u >> t) mod w) * 2^t + (u mod 2^t).
C18_EvenDivisorRemainder ==
    (pc = "returned" /\ call.op \in {"rem", "div_rem"}
        /\ Len(call.d) >= 2 /\ call.d[1] % 2 = 0 /\ Len(call.u) > Len(call.d))
        => LET t == trailing_zeros(Val(call.d))
               w == Val(call.d) \div 2^t
           IN  /\ Val(rem_save(call.u, t)) = Val(call.u) % 2^t
               /\ ret.outcome = "ok"
               /\ Val(ret.r) = ((Val(call.u) \div 2^t) % w) * 2^t + (Val(call.u) % 2^t)

\* the digit loop of div_rem_knuth on the operands (u, d) of the call, d of
\* two digits or more and u > d: the normalization shift, the normalized
\* divisor and the outcome of the loop
knuth_shift == BITS - BitLen(call.d[Len(call.d)])
knuth_b == shl(call.d, knuth_shift)
knuth_run ==
    knuth_loop(Len(shl(call.u, knuth_shift)) - Len(knuth_b), shl(call.u, knuth_shift),
               Zeros(Len(shl(call.u, knuth_shift)) - Len(knuth_b) + 1), knuth_b, FALSE, <<>>)
KnuthLong ==
    pc = "returned" /\ call.op = "div_rem_knuth" /\ Len(call.d) >= 2
        /\ Val(call.u) > Val(call.d)

\* C19: for every u and every d > 0, div_rem_knuth(u, d) returns (q, r) with
\* u = q * d + r and r < d; when the digit loop ends the normalized remainder
\* a is below the normalized divisor b, and a >> shift drops no set bit.
C19_KnuthContract ==
    (pc = "returned" /\ call.op = "div_rem_knuth")
        => /\ ret.outcome = "ok"
           /\ ~ret.viol
           /\ Val(ret.r) < Val(call.d)
           /\ Val(call.u) = Val(ret.q) * Val(call.d) + Val(ret.r)
           /\ KnuthLong => /\ knuth_run.ok
                           /\ cmp_slice(knuth_run.a, knuth_b) = -1
                           /\ Val(knuth_run.a) % 2^knuth_shift = 0

\* C20: in div_rem_knuth, for every u > d with d of two or more digits, at
\* every quotient position the guess a[offset..] / bn is not below the true
\* partial quotient a[j..] / b, and the correction loop decrements it at most
\* twice.
C20_KnuthGuess ==
    KnuthLong
        => \A i \in DOMAIN knuth_run.trace :
               /\ knuth_run.trace[i].guess >= knuth_run.trace[i].quot
               /\ knuth_run.trace[i].k <= 2


\* the correction loop of div_rem_small on the operands of the call
div_rem_small_run ==
    LET s == __sub2(call.u, Big(Val(call.d) * call.n))
    IN  IF s.bw THEN div_rem_small_add(0, normalized(s.a), call.n, call.d)
        ELSE div_rem_small_sub(0, normalized(s.a), call.n, call.d)

\* C21: for every x >= y of equal digit length and every quotient estimate
\* within 15 of floor(x / y), div_rem_small returns (q, r) with
\* x = q * y + r and 0 <= r < y after fewer than 16 correction steps, so both
\* of its assertions hold.
C21_SmallCorrection ==
    (pc = "returned" /\ call.op = "div_rem_small"
        /\ call.n >= (Val(call.u) \div Val(call.d)) - 15
        /\ call.n <= (Val(call.u) \div Val(call.d)) + 15)
        => /\ ret.outcome = "ok"
           /\ ~ret.viol
           /\ div_rem_small_run.nc < ncmax
           /\ Val(ret.r) < Val(call.d)
           /\ Val(call.u) = Val(ret.q) * Val(call.d) + Val(ret.r)


RECURSIVE div_rem_binary_stops_early(_, _, _, _)
\* the loop of div_rem_binary without its last step (i = 0)
div_rem_binary_stops_early(i, x_loc, y_loc, tr) ==
    IF i < 1 THEN tr
    ELSE LET sub == cmp_slice(x_loc, y_loc) = 1
         IN  div_rem_binary_stops_early(i - 1,
                 IF sub THEN normalized(__sub2(x_loc, y_loc).a) ELSE x_loc,
                 IF i > 0 THEN shr(y_loc, 1) ELSE y_loc,
                 Append(tr, [i |-> i, sub |-> sub, x_loc |-> x_loc, y_loc |-> y_loc]))

RECURSIVE div_rem_binary_trace(_, _, _, _)
\* the steps of the loop of div_rem_binary from bit i down: for each step
\* the bit position, whether y_loc was subtracted, and x_loc, y_loc before it
div_rem_binary_trace(i, x_loc, y_loc, tr) ==
    IF i < 0 THEN tr
    ELSE LET sub == cmp_slice(x_loc, y_loc) = 1
         IN  div_rem_binary_trace(i - 1,
                 IF sub THEN normalized(__sub2(x_loc, y_loc).a) ELSE x_loc,
                 IF i > 0 THEN shr(y_loc, 1) ELSE y_loc,
                 Append(tr, [i |-> i, sub |-> sub, x_loc |-> x_loc, y_loc |-> y_loc]))

\* the steps taken by div_rem_binary(x, y), y > 0
div_rem_binary_steps(x, y) ==
    LET max_len == Max(Len(x), Len(y))
        lz_x    == leading_zeros(x) + (max_len - Len(x)) * BITS
        lz_y    == leading_zeros(y) + (max_len - Len(y)) * BITS
    IN  IF Len(x) < Len(y) \/ (Len(x) = Len(y) /\ cmp_slice(x, y) = -1) THEN <<>>
        ELSE div_rem_binary_trace(lz_y - lz_x, x, shl(y, lz_y - lz_x), <<>>)

RECURSIVE SetBits(_, _)
\* the value of the quotient bits set in the steps tr[k..]
SetBits(tr, k) ==
    IF k > Len(tr) THEN 0
    ELSE (IF tr[k].sub THEN 2^(tr[k].i) ELSE 0) + SetBits(tr, k + 1)

\* C22: for every x and every y > 0, div_rem_binary(x, y) returns (q, r)
\* with x = q * y + r and 0 <= r < y (its final assertion holds), the bits
\* of q being exactly the positions at which the shifted divisor was
\* subtracted.
C22_BinaryContract ==
    (pc = "returned" /\ call.op = "div_rem_binary")
        => /\ ret.outcome = "ok"
           /\ ~ret.viol
           /\ Val(ret.q) = SetBits(div_rem_binary_steps(call.u, call.d), 1)
           /\ Val(ret.r) < Val(call.d)
           /\ Val(call.u) = Val(ret.q) * Val(call.d) + Val(ret.r)

\* C23: for every x >= y > 0 the loop of div_rem_binary takes exactly
\* bitlen(x) - bitlen(y) + 1 steps, from the bit bitlen(x) - bitlen(y) down
\* to the bit 0, and ends; for x < y it takes none and returns (0, x).
C23_BinarySteps ==
    (pc = "returned" /\ call.op = "div_rem_binary")
        => LET tr == div_rem_binary_steps(call.u, call.d)
               x  == Val(call.u)
               y  == Val(call.d)
           IN  /\ x >= y => /\ BitLen(x) >= BitLen(y)
                            /\ Len(tr) = BitLen(x) - BitLen(y) + 1
                            /\ \A k \in 1..Len(tr) : tr[k].i = Len(tr) - k
                            /\ tr[1].y_loc = shl(call.d, BitLen(x) - BitLen(y))
                            /\ ret.outcome = "ok" => Val(ret.q) = SetBits(tr, 1)
               /\ x < y => /\ tr = <<>>
                           /\ ret.outcome = "ok"
                           /\ ret.q = <<>>
                           /\ ret.r = call.u

\* a dividend several bits longer than the divisor: four steps or more
C23_Witness ==
    /\ pc = "returned"
    /\ call.op = "div_rem_binary"
    /\ ret.outcome = "ok"
    /\ ~ret.viol
    /\ Len(call.u) > Len(call.d)
    /\ Len(div_rem_binary_steps(call.u, call.d)) >= 4
    /\ BitLen(Val(call.u)) - BitLen(Val(call.d)) + 1 = Len(div_rem_binary_steps(call.u, call.d))
    /\ \E k \in 1..Len(div_rem_binary_steps(call.u, call.d)) :
           div_rem_binary_steps(call.u, call.d)[k].sub


\* the operands of the Montgomery core for the call (u, d): the odd part w
\* of d, the dividend v shifted alike, the inverse of w and the chunk counts
core_shift == trailing_zeros(Val(call.d))
core_w == IF core_shift > 0 THEN shr(call.d, core_shift) ELSE call.d
core_v == IF core_shift > 0 THEN shr(call.u, core_shift) ELSE call.u
core_winv == mod_invn(core_w)
core_chunks == Len(core_v) \div Len(core_w)
core_rem == Len(core_v) % Len(core_w)
\* the call reaches the chunked passes of div_rem_mont_inner
CoreReached ==
    /\ pc = "returned"
    /\ call.op \in {"div_rem_mont", "div_mont", "rem_mont"}
    /\ call.d # <<>>
    /\ Len(call.u) # Len(call.d)
    /\ (core_shift + BITS - 1) \div BITS <= Len(call.u)
    /\ Len(core_w) >= 2

\* the first pass after its first k steps
fold_after(k) ==
    fold_loop(core_v, 1, k, core_w, core_winv,
              [ok |-> TRUE, lohi |-> Zeros(2 * Len(core_w)), tmp |-> Zeros(Len(core_w))])
\* the product (multiplier * w) formed by step k of the first pass, the
\* multiplier being MULL(chunk - carried, winv)
fold_product(k) ==
    LET w_len == Len(core_w)
        vi    == SubSeq(core_v, (k - 1) * w_len + 1, k * w_len)
        s     == __sub2(vi, SubSeqFrom(fold_after(k - 1).lohi, w_len + 1))
    IN  __mul3(mul_lo(s.a, SubSeq(core_winv, 1, Min(Len(core_winv), w_len)), w_len), core_w)
\* the value the step after step k subtracts from its chunk
fold_carried(k) == SubSeqFrom(fold_after(k).lohi, Len(core_w) + 1)
\* the chunks 1..k of v as a number
ChunksValue(k) == Val(SubSeq(core_v, 1, Min(Len(core_v), k * Len(core_w))))

\* C24: in the first pass of the Montgomery core, for an odd w of two or
\* more digits, the value subtracted from every chunk after the first, the
\* zero-padded last partial chunk included, is the high half of the product
\* (multiplier * w) of the step before; the value carried after k steps is
\* then the k-fold Montgomery reduction of the chunks 1..k:
\* carried * R^k + chunks = 0 (mod w), up to the borrow of the step.
C24_FoldCarriesHighHalf ==
    CoreReached
        => \A k \in 1..core_chunks :
               (fold_after(k).ok /\ (k < core_chunks \/ core_rem > 0))
                   => /\ fold_carried(k) = SubSeqFrom(fold_product(k), Len(core_w) + 1)
                      /\ \E b \in 0..1 :
                             ((Val(fold_carried(k)) + b) * PowMod(TWO_POW_BITS, k * Len(core_w), Val(core_w))
                                 + ChunksValue(k)) % Val(core_w) = 0


\* C25: for an odd w of two or more digits and a dividend v with more
\* digits than w, the cached power is radix_power_n(w_len, w, winv) and
\* mont_mul_n of the folded residue (left in cache.cy) with it is v mod w,
\* whatever the number of chunks of v.
C25_ResidueConversion ==
    (CoreReached /\ Len(core_v) > Len(core_w))
        => /\ ret.outcome = "ok"
           /\ cache.w = core_w
           /\ cache.basepow = radix_power_n(Len(core_w), core_w, core_winv)
           /\ Val(mont_mul_n(cache.cy, cache.basepow, core_w, cache.winv))
                  = Val(core_v) % Val(core_w)


\* the remainder of the odd parts, out of Montgomery space, that the
\* quotient pass starts from
quot_cy == mont_mul_n(cache.cy, cache.basepow, core_w, cache.winv)
\* the quotient pass after its first k steps
quot_after(k) ==
    quot_loop(core_v, 1, k, core_w, cache.winv,
              [ok   |-> TRUE,
               lohi |-> Zeros(Len(core_w))
                        \o Resize(SubSeq(quot_cy, 1, Min(Len(quot_cy), Len(core_w))), Len(core_w)),
               tmp  |-> Zeros(Len(core_w)),
               q    |-> Zeros(2 * Len(core_w)),
               viol |-> FALSE])
\* the quotient digits of the call, padded to one place per chunk digit
quot_digits == Resize(ret.q, core_chunks * Len(core_w))
QuotReached ==
    /\ CoreReached
    /\ call.op \in {"div_rem_mont", "div_mont"}
    /\ Len(core_v) > Len(core_w)
    /\ ret.outcome = "ok"

\* C26: in the quotient pass of the Montgomery core, step k (k = 0, 1, ...)
\* writes the w_len quotient digits it emits to the quotient positions
\* [k * w_len, (k + 1) * w_len), nothing overwrites or clears them
\* afterwards, and the digits assembled are floor(v / w).
C26_QuotientChunks ==
    QuotReached
        => /\ \A k \in 1..core_chunks :
                  SubSeq(quot_digits, (k - 1) * Len(core_w) + 1, k * Len(core_w))
                      = quot_after(k).tmp
           /\ Val(ret.q) = Val(core_v) \div Val(core_w)


\* C27: for every odd q with qinv = mod_invn(q) and every x, y below
\* 2^(W * len(q)), mont_mul_n(x, y, q, qinv) is the canonical, fully reduced
\* x * y * R^-1 mod q with R = 2^(W * len(x)), and mont_sqr_n(x, q, qinv) is
\* the same value as mont_mul_n(x, x, q, qinv).
C27_MontMulN ==
    (pc = "returned" /\ call.op \in {"mont_mul_n", "mont_sqr_n"})
        => /\ ret.outcome = "ok"
           /\ is_canonical(ret.r)
           /\ Val(ret.r) < Val(call.n)
           /\ (Val(ret.r) * PowMod(TWO_POW_BITS, Len(call.u), Val(call.n))) % Val(call.n)
                  = (Val(call.u) * Val(call.d)) % Val(call.n)
           /\ call.op = "mont_sqr_n"
                  => ret.r = mont_mul_n(call.u, call.u, call.n, mod_invn(call.n))


RECURSIVE ReplayExponent(_, _, _)
\* the exponent reached from R^k by the powering loop over the bits
\* bm[i + 1], ..., bm[1]: a clear bit squares, mont_sqr(R^k) = R^(2k - 1); a
\* set bit multiplies by the power reduced by one,
\* mont_mul(mmul_one(R^k), R^k) = R^(2k - 2)
ReplayExponent(i, bm, k) ==
    IF i < 0 THEN k
    ELSE ReplayExponent(i - 1, bm, IF bm[i + 1] THEN 2 * k - 2 ELSE 2 * k - 1)

\* C28: for every n >= 4 the halving loop p <- p / 2 + 1, run while p > 5
\* and recording whether p is even, ends with p in {4, 5} (the unreachable
\* branch of radix_power_n is never taken); replaying the recorded bits from
\* R^p ends at R^n; calc_bitmap and the inline loop of radix_power_n produce
\* the same schedule.
C28_PowerSchedule ==
    (pc = "returned" /\ call.op = "calc_bitmap" /\ call.n >= 4)
        => /\ ret.outcome = "ok"
           /\ ret.q \in {4, 5}
           /\ Len(ret.r) < 32
           /\ ReplayExponent(Len(ret.r) - 1, ret.r, ret.q) = call.n
           /\ radix_power_n_bitmap(0, call.n, <<>>) = [j |-> Len(ret.r), p |-> ret.q, bm |-> ret.r]
           /\ radix_power(call.n, 7, mod_inv1(7)) = PowMod(TWO_POW_BITS, call.n, 7)
           /\ u64_digit => radix_power(call.n, 11, mod_inv1(11)) = PowMod(TWO_POW_BITS, call.n, 11)

\* a power whose schedule has a set and a clear bit
C28_Witness ==
    /\ pc = "returned"
    /\ call.op = "calc_bitmap"
    /\ call.n >= 11
    /\ Len(ret.r) >= 2
    /\ \E i \in 1..Len(ret.r) : ret.r[i]
    /\ \E i \in 1..Len(ret.r) : ~ret.r[i]
    /\ ReplayExponent(Len(ret.r) - 1, ret.r, ret.q) = call.n


\* the call returned through a short-circuit of div, rem or div_rem, or
\* through the equal-length path or the single-digit shortcut of
\* div_rem_mont_inner
ShortCircuited ==
    /\ pc = "returned"
    /\ call.op \in EntryOps
    /\ \/ call.d = <<>>
       \/ call.u = <<>>
       \/ Len(call.d) = 1
       \/ cmp_slice(call.u, call.d) # 1
       \/ Len(call.u) = Len(call.d)
       \/ Len(core_w) = 1
\* what the cache stores about its modulus
StoredModulus == <<cache.w, cache.winv, cache.basepow>>

\* C29: a call that returns through a short-circuit (u = 0, single-digit d,
\* u <= d, operands of equal digit length, an even divisor with a
\* single-digit odd part) leaves the cache's w, winv and basepow as they
\* were; they change only in a call that reaches the multi-digit core with
\* an odd part different from the stored w.
C29_CacheFrame ==
    [][(pc' = "returned")
           => /\ ShortCircuited' => StoredModulus' = StoredModulus
              /\ StoredModulus' # StoredModulus
                     => (~ShortCircuited' /\ Len(core_w') >= 2 /\ core_w' # cache.w)]_vars

\* a short-circuit call returning on a thread whose cache holds a modulus
C29_Witness ==
    /\ ShortCircuited
    /\ ret.outcome = "ok"
    /\ call.u # <<>>
    /\ Len(call.d) >= 2
    /\ cache.w # <<>>
    /\ cache.basepow # <<>>


RECURSIVE fold_carries_rounded_up(_, _, _, _, _, _)
\* the scalar fold with its carry rounded up instead of down
fold_carries_rounded_up(ds, i, cy, q, qinv, tr) ==
    IF i > Len(ds) THEN [cy |-> cy, steps |-> tr]
    ELSE LET bw  == IF ds[i] < cy THEN 1 ELSE 0
             sum == ((((ds[i] - cy) % TWO_POW_BITS) * qinv) % TWO_POW_BITS) + bw
         IN  fold_carries_rounded_up(ds, i + 1, umulh(sum % TWO_POW_BITS, q) + 1, q, qinv,
                                     Append(tr, [cy |-> cy, xi |-> ds[i], sum |-> sum]))

RECURSIVE fold_carries(_, _, _, _, _, _)
\* the scalar fold loop over the digits ds, from digit i with the carry cy:
\* the last carry, and for each step the carry it starts from, its digit and
\* the sum tmp.wrapping_mul(qinv) + bw before any wrapping
fold_carries(ds, i, cy, q, qinv, tr) ==
    IF i > Len(ds) THEN [cy |-> cy, steps |-> tr]
    ELSE LET bw  == IF ds[i] < cy THEN 1 ELSE 0
             sum == ((((ds[i] - cy) % TWO_POW_BITS) * qinv) % TWO_POW_BITS) + bw
         IN  fold_carries(ds, i + 1, umulh(sum % TWO_POW_BITS, q), q, qinv,
                          Append(tr, [cy |-> cy, xi |-> ds[i], sum |-> sum]))

\* the digit sequences folded by the routine of the call: all of x in
\* remainder_a, the two halves of x (the upper one zero padded) in
\* remainder_a_u2, all but the last digit in remainder_b
fold_lanes ==
    LET x  == call.u
        n  == Len(x)
        n2 == (n + (n % 2)) \div 2
    IN  IF call.op = "remainder_b"
        THEN (IF n < 2 THEN <<>> ELSE <<SubSeq(x, 1, n - 1)>>)
        ELSE IF call.d[1] = 1 THEN <<>>
        ELSE IF call.op = "remainder_a" \/ n < 2 THEN <<x>>
        ELSE <<SubSeq(x, 1, n2), Resize(SubSeqFrom(x, n2 + 1), n2)>>
\* the fold of lane l of the call
fold_lane(l) == fold_carries(fold_lanes[l], 1, 0, call.d[1], mod_inv1(call.d[1]), <<>>)
\* what the routine of the call returns, given the carries its loop ends with
fold_result ==
    LET x    == call.u
        n    == Len(x)
        n2   == (n + (n % 2)) \div 2
        q    == call.d[1]
        qinv == mod_inv1(q)
    IN  IF fold_lanes = <<>>
        THEN (IF call.op = "remainder_b" /\ n = 1 THEN x[1] % q ELSE 0)
        ELSE IF call.op = "remainder_b"
        THEN remainder_b_scale(x[n], fold_lane(1).cy, n, q, qinv)
        ELSE IF Len(fold_lanes) = 1
        THEN remainder_a_scale(fold_lane(1).cy, n + 1, q, qinv)
        ELSE remainder_a_u2_join(<<fold_lane(1).cy, fold_lane(2).cy>>,
                                 radix_power(n2 + 1, q, qinv), q, qinv)

\* C30: in the fold loops of remainder_a, remainder_a_u2 and remainder_b,
\* for every x and every odd digit q, the running carry stays below q, the
\* sum tmp.wrapping_mul(qinv) + borrow never exceeds 2^BITS - 1, and q - cy
\* never underflows: no call panics on overflow and the value returned is
\* the one computed from these carries.
C30_FoldNoOverflow ==
    (pc = "returned" /\ call.op \in RemainderOps)
        => /\ \A l \in 1..Len(fold_lanes) :
                  /\ \A k \in 1..Len(fold_lane(l).steps) :
                         /\ fold_lane(l).steps[k].cy < call.d[1]
                         /\ fold_lane(l).steps[k].sum <= TWO_POW_BITS - 1
                  /\ fold_lane(l).cy < call.d[1]
                  /\ call.d[1] - fold_lane(l).cy >= 0
           /\ ret.outcome = "ok"
           /\ ret.r = Big(fold_result)

\* a fold of three digits or more in which a step borrows (its digit is
\* below the carry coming in)
C30_Witness ==
    /\ pc = "returned"
    /\ call.op \in RemainderOps
    /\ call.d[1] > TWO_POW_BITS1
    /\ Len(fold_lanes) >= 1
    /\ Len(fold_lane(1).steps) >= 3
    /\ \E k \in 1..Len(fold_lane(1).steps) :
           /\ fold_lane(1).steps[k].xi < fold_lane(1).steps[k].cy
           /\ fold_lane(1).steps[k].sum > TWO_POW_BITS1
    /\ fold_lane(1).cy > 0
    /\ ret.outcome = "ok"

====
